---- MODULE Spec2Model ----
(***************************************************************************)
(* A model of simple_dial.Dial (src/simple_dial.py): the dial widget's     *)
(* construction (dimension check, derived geometry, tick / label / outline *)
(* drawing, palette, layers, needle) and its value setter.                 *)
(*                                                                         *)
(* Numbers.  The widget computes with Python floats.  Here every float is  *)
(* a fixed-point integer: lengths and coordinates are exact rationals      *)
(* (numerator over a positive denominator) until the code rounds them,     *)
(* angles in radians are integers in units of 1/Scale rad, and sines and   *)
(* cosines are integers in units of 1/Scale.  The host toolkit (displayio, *)
(* vectorio, bitmaptools, bitmap_label) is not part of the repository: a   *)
(* bitmap is the sequence of drawing commands issued on it, a palette is   *)
(* its colour table, a group is the sequence of its layers.                *)
(***************************************************************************)
EXTENDS Integers, Sequences, FiniteSets, TLC

\* An attribute that may be None is a set: empty for None, {v} for the value v.
None == {}

Some(v) == {v}

Get(o) == CHOOSE v \in o : TRUE

\* ------------------------------------------------------------ arithmetic

\* Resolution of the fixed-point numbers: 4 decimal places, the precision
\* draw_ticks itself rounds its angles to (round(..., 4)).
Scale == 10000

\* math.pi, in units of 1/Scale rad.
HalfTurn == 31416

Abs(n) == IF n < 0 THEN -n ELSE n

RECURSIVE GCD(_, _)
GCD(a, b) == IF b = 0 THEN a ELSE GCD(b, a % b)

\* A Python float that is the quotient of two integers: <<numerator,
\* denominator>> in lowest terms, denominator > 0.
Frac(n, d) ==
    LET g == GCD(Abs(n), Abs(d))
        s == IF d < 0 THEN -1 ELSE 1
    IN  <<(s * n) \div g, (s * d) \div g>>

\* Python's round(n / d), d > 0: to the nearest integer, a tie to the even
\* one.
RoundHalfEven(n, d) ==
    LET q == n \div d
        r == n % d
    IN  IF 2 * r < d THEN q
        ELSE IF 2 * r > d THEN q + 1
        ELSE IF q % 2 = 0 THEN q ELSE q + 1

\* Python's int(n / d), d > 0: truncation toward zero.
IntTrunc(n, d) == IF n >= 0 THEN n \div d ELSE -((-n) \div d)

\* math.ceil(n / d), d > 0.
Ceil(n, d) == -((-n) \div d)

\* math.sin and math.cos of an angle a given in units of 1/Scale rad, the
\* result in units of 1/Scale: reduction to the first octant, then the
\* Taylor polynomial.
SinTaylor(x) ==
    LET x2 == (x * x) \div Scale
        x3 == (x * x2) \div Scale
        x5 == (x3 * x2) \div Scale
        x7 == (x5 * x2) \div Scale
    IN  x - RoundHalfEven(x3, 6) + RoundHalfEven(x5, 120) - RoundHalfEven(x7, 5040)

CosTaylor(x) ==
    LET x2 == (x * x) \div Scale
        x4 == (x2 * x2) \div Scale
        x6 == (x4 * x2) \div Scale
    IN  Scale - RoundHalfEven(x2, 2) + RoundHalfEven(x4, 24) - RoundHalfEven(x6, 720)

SinFirstQuadrant(a) ==
    IF 4 * a <= HalfTurn THEN SinTaylor(a) ELSE CosTaylor(HalfTurn \div 2 - a)

SinHalfTurn(a) ==
    IF 2 * a <= HalfTurn THEN SinFirstQuadrant(a) ELSE SinFirstQuadrant(HalfTurn - a)

Sin(a) ==
    LET t == a % (2 * HalfTurn)
    IN  IF t <= HalfTurn THEN SinHalfTurn(t) ELSE -SinHalfTurn(t - HalfTurn)

Cos(a) == Sin(a + HalfTurn \div 2)

Min(a, b) == IF a <= b THEN a ELSE b

Max(a, b) == IF a >= b THEN a ELSE b

\* An angle of n/d degrees (a Frac) converted to radians, deg * (2 * math.pi /
\* 360), in units of 1/Scale rad.
Radians(deg) == RoundHalfEven(deg[1] * HalfTurn, deg[2] * 180)

\* ----------------------------------------------------------------- state

VARIABLES
    pc,         \* "new": before Dial(...); "constructed"; "raised"
    raised,     \* the exception the constructor ended with, or None
    self,       \* the Dial object: its attributes, and the layers of the
                \* displayio.Group it is (bottom first)
    last_call   \* the last operation: its arguments, and the _draw_position
                \* call it made

vars == <<pc, raised, self, last_call>>

\* The object before __init__ has set anything.  dial_bitmap holds the
\* drawing commands issued on the face bitmap, _needle the points of the
\* needle polygon.
Unset ==
    [config |-> None, _value |-> None, _font_height |-> None,
     _width |-> None, _height |-> None, _bounding_box |-> None,
     _dial_center |-> None, _dial_radius |-> None, dial_bitmap |-> None,
     dial_palette |-> None, dial_tilegrid |-> None, _needle_palette |-> None,
     _needle |-> None, _needle_width |-> None, layers |-> << >>]

\* ------------------------------------------------------------- geometry

\* The guard of _adjust_dimensions: the requested box minus the padding on
\* both sides has a negative width or height.
InvalidDimensions_WidthOnly(width, height, padding) ==
    width - 2 * padding < 0

InvalidDimensions(width, height, padding) ==
    (width - 2 * padding < 0) \/ (height - 2 * padding < 0)

_adjust_dimensions_ceil(width, height, padding) ==
    LET radius == Ceil(width - 2 * padding, 2)
    IN  [_width |-> width,
         _height |-> (width - 2 * padding) + 2 * padding,
         _dial_center |-> <<radius + padding, radius + padding>>,
         _dial_radius |-> radius]

_adjust_dimensions_height(width, height, padding) ==
    LET radius == RoundHalfEven(width - 2 * padding, 2)
    IN  [_width |-> width,
         _height |-> height,
         _dial_center |-> <<radius + padding, radius + padding>>,
         _dial_radius |-> radius]

\* _adjust_dimensions past its guard: the attributes it sets.  The box
\* [left, top, right, bottom] is [0, 0, 1, 1] and its centre (0.5, 0.5), so
\* box_aspect_ratio = 1 and the divisor of the radius is 2 * (right - left).
_adjust_dimensions(width, height, padding) ==
    LET left == 0
        top == 0
        right == 1
        bottom == 1
        box_aspect_ratio == Frac(right - left, bottom - top)
        radius == RoundHalfEven(width - 2 * padding, 2 * (right - left))
        \* round(x_center_calc * radius * 2), x_center_calc = 0.5 = 1/2
        center_x == RoundHalfEven(1 * radius * 2, 2) + padding
        center_y == RoundHalfEven(1 * radius * 2, 2) + padding
    IN  [_width |-> width,
         _height |-> Ceil((width - 2 * padding) * box_aspect_ratio[2],
                          box_aspect_ratio[1]) + 2 * padding,
         _dial_center |-> <<center_x, center_y>>,
         _dial_radius |-> radius]

\* terminalio.FONT, the font tick_label_font=None selects: a font with a
\* get_bounding_box accessor (6 x 12 pixels).
terminalio_FONT == [get_bounding_box |-> <<6, 12>>]

\* _get_font_height for a font with get_bounding_box: int(scale * height),
\* the scale a Frac.  A tuple of labels never equals [], so the first branch
\* is taken for a list [] or no font only; the labels of the model are tuples
\* and a font is always set.
_get_font_height(font, scale) ==
    IntTrunc(scale[1] * font.get_bounding_box[2], scale[2])

\* ---------------------------------------------------------- ticks, labels

\* The angle of item i of a run of count items, in degrees, as the code
\* writes it: -180 + i * 360 / (count - 1).  count > 1.
TickAngleDegrees_PerCount(i, count) == Frac(-180 * count + i * 360, count)

TickAngleDegrees(i, count) == Frac(-180 * (count - 1) + i * 360, count - 1)

\* draw_ticks' this_angle: the angle in radians rounded to 4 places, which is
\* the resolution of Radians.
TickAngle(i, count) == Radians(TickAngleDegrees(i, count))

\* draw_labels' this_angle: the same angle in radians, not rounded by the
\* code (here it has the resolution of every angle of the model).
LabelAngle(i, label_count) == Radians(TickAngleDegrees(i, label_count))

\* One bitmaptools.rotozoom call of draw_ticks: tick i of tick_count.
TickBlit(center, radius, i, tick_count, tick_stroke, tick_length) ==
    LET this_angle == TickAngle(i, tick_count)
    IN  [op |-> "rotozoom",
         source |-> <<"tick", tick_stroke, tick_length>>,
         ox |-> RoundHalfEven(center[1] * Scale + radius * Sin(this_angle), Scale),
         oy |-> RoundHalfEven(center[2] * Scale - radius * Cos(this_angle), Scale),
         px |-> RoundHalfEven(tick_stroke, 2),
         py |-> 0,
         angle |-> this_angle]

\* draw_ticks: the commands it issues on the face bitmap (none when
\* tick_count <= 1).
draw_ticks(center, radius, tick_count, tick_stroke, tick_length) ==
    IF tick_count <= 1
        THEN << >>
        ELSE [k \in 1..tick_count |->
                TickBlit(center, radius, k - 1, tick_count, tick_stroke, tick_length)]

\* draw_labels evaluates i * 360 / (label_count - 1) for every label: with
\* exactly one label that is 0 * 360 / 0, a ZeroDivisionError.
draw_labels_raises(labels) == Len(labels) > 0 /\ Len(labels) - 1 = 0

\* One bitmaptools.rotozoom call of draw_labels: label i of the tuple.
LabelBlit(center, radius, font_height, scale, labels, i) ==
    LET this_angle == LabelAngle(i, Len(labels))
        reach == radius + font_height \div 2
    IN  [op |-> "rotozoom",
         source |-> <<"label", labels[i + 1]>>,
         ox |-> RoundHalfEven(center[1] * Scale + reach * Sin(this_angle), Scale),
         oy |-> RoundHalfEven(center[2] * Scale - reach * Cos(this_angle), Scale),
         angle |-> this_angle,
         scale |-> scale]

\* draw_labels, when it does not raise: the commands it issues.
draw_labels(center, radius, font_height, scale, labels) ==
    [k \in 1..Len(labels) |->
        LabelBlit(center, radius, font_height, scale, labels, k - 1)]

\* ---------------------------------------------------------------- outline

\* math.cos and math.sin of i degrees, i = 0..360, as the outline loop
\* evaluates them (i * math.pi / 180).
CircleTrig ==
    [i \in 0..360 |->
        LET a == RoundHalfEven(i * HalfTurn, 180)
        IN  <<Cos(a), Sin(a)>>]

\* The 361 points of the outline and the 360 draw_line calls joining them.
OutlinePoint(center, radius, i) ==
    <<center[1] + IntTrunc(radius * CircleTrig[i][1], Scale),
      center[2] + IntTrunc(radius * CircleTrig[i][2], Scale)>>

draw_outline(center, radius) ==
    [k \in 1..360 |->
        [op |-> "draw_line",
         from |-> OutlinePoint(center, radius, k - 1),
         to |-> OutlinePoint(center, radius, k),
         value |-> 2]]

\* ----------------------------------------------------------------- needle

\* The polygon _create_needle builds, before any position is drawn.
PlaceholderPoints == <<<<100, 100>>, <<100, 50>>, <<50, 50>>, <<50, 100>>>>

\* The value _update_needle computes the angle from.  With limit_rotation the
\* code reads self._value (both callers pass it), else its parameter.
AngleInput_UpperOnly(value, self_value, limit_rotation, min_value, max_value) ==
    IF limit_rotation THEN Min(self_value, max_value) ELSE value

AngleInput(value, self_value, limit_rotation, min_value, max_value) ==
    IF limit_rotation
        THEN Max(Min(self_value, max_value), min_value)
        ELSE value

\* value / (self._max_value - self._min_value) raises ZeroDivisionError.
_update_needle_raises(min_value, max_value) == max_value - min_value = 0

\* The position _update_needle hands to _draw_position, a Frac.
Position(input, min_value, max_value) == Frac(input, max_value - min_value)

\* _draw_position's angle_offset, (2 * pi / 360) * (-180 + 360 * position).
AngleOffset(position) ==
    Radians(Frac(-180 * position[2] + 360 * position[1], position[2]))

\* _draw_position: the four points it assigns to the needle polygon.  Every
\* coordinate is round(n / (2 * Scale)), the halves coming from
\* needle_width / 2.
_draw_position(position, center, radius, needle_width, needle_pad, dial_half) ==
    LET angle_offset == AngleOffset(position)
        s == Sin(angle_offset)
        c == Cos(angle_offset)
        d_x == needle_width * c           \* in units of 1 / (2 * Scale)
        d_y == needle_width * s
        reach == 2 * (radius - needle_pad)
        cx == 2 * Scale * center[1]
        cy == 2 * Scale * center[2]
        x_0 == RoundHalfEven(cx - reach * s * dial_half - d_x, 2 * Scale)
        y_0 == RoundHalfEven(cy + reach * c * dial_half - d_y, 2 * Scale)
        x_1 == RoundHalfEven(cx - reach * s * dial_half + d_x, 2 * Scale)
        y_1 == RoundHalfEven(cy + reach * c * dial_half + d_y, 2 * Scale)
        x_2 == RoundHalfEven(cx + reach * s + d_x, 2 * Scale)
        y_2 == RoundHalfEven(cy - reach * c + d_y, 2 * Scale)
        x_3 == RoundHalfEven(cx + reach * s - d_x, 2 * Scale)
        y_3 == RoundHalfEven(cy - reach * c - d_y, 2 * Scale)
    IN  <<<<x_0, y_0>>, <<x_1, y_1>>, <<x_2, y_2>>, <<x_3, y_3>>>>

\* _update_needle on a dial whose range is not empty: the points it has
\* _draw_position assign to the needle.
_update_needle(value, self_value, cfg, center, radius, needle_width) ==
    _draw_position(
        Position(AngleInput(value, self_value, cfg._limit_rotation,
                            cfg._min_value, cfg._max_value),
                 cfg._min_value, cfg._max_value),
        center, radius, needle_width, cfg._needle_pad, cfg._dial_half)

\* The _draw_position call _update_needle makes, as last_call records it: the
\* value the angle is computed from and the position handed over.
DrawCall(value, self_value, cfg) ==
    LET input == AngleInput(value, self_value, cfg._limit_rotation,
                            cfg._min_value, cfg._max_value)
    IN  [input |-> input,
         position |-> Position(input, cfg._min_value, cfg._max_value)]

\* ------------------------------------------------------------ arguments

\* The constructor's arguments at the defaults of its signature (floats as
\* integers or Fracs, colours as integers, value=None).
DefaultArgs ==
    [x |-> 100, y |-> 100, width |-> 100, height |-> 100, padding |-> 5,
     needle_width |-> 3, needle_pad |-> 10, needle_full |-> FALSE,
     needle_color |-> 8912896, limit_rotation |-> TRUE, value |-> None,
     min_value |-> 0, max_value |-> 100, tick_color |-> 16777215,
     major_ticks |-> 5, major_tick_stroke |-> 4, major_tick_length |-> 10,
     major_tick_labels |-> <<"0", "25", "50", "75", "100">>,
     minor_ticks |-> 5, minor_tick_stroke |-> 1, minor_tick_length |-> 5,
     tick_label_font |-> None, tick_label_color |-> 16777215,
     rotate_tick_labels |-> TRUE, tick_label_scale |-> <<1, 1>>,
     background_color |-> None]

MaxDim == 5
MaxPad == 2
MaxValue == 9
MaxMajor == 5
MaxMinor == 5
MaxLabels == 5

\* Widths, heights and paddings: the small ones, and those of the example
\* (150, 150, 12) and of a box the padding eats up (10, 10).
Dims == (0..MaxDim) \cup {10, 150}
Paddings == (0..MaxPad) \cup {10, 12}

\* Values assigned to the dial, and ranges [min_value, max_value]: inside,
\* at and outside the range, a range not starting at 0, an empty range.
Values == (-1..MaxValue) \cup {-10, 100, 150}
MinValues == {0, 4}
MaxValues == {4, 8, 100}

\* A tuple of n label strings: "0", "25", "50", ...
Labels(n) == [k \in 1..n |-> ToString((k - 1) * 25)]

DimensionArgs ==
    {[DefaultArgs EXCEPT !.width = w, !.height = h, !.padding = p] :
        w \in Dims, h \in Dims, p \in Paddings}

NeedleArgs ==
    {[DefaultArgs EXCEPT !.min_value = lo, !.max_value = hi, !.value = v,
                         !.limit_rotation = lim, !.needle_full = full] :
        lo \in MinValues, hi \in MaxValues,
        v \in {None} \cup {Some(n) : n \in Values},
        lim \in BOOLEAN, full \in BOOLEAN}

FaceArgs ==
    {[DefaultArgs EXCEPT !.major_ticks = major, !.minor_ticks = minor,
                         !.major_tick_labels = Labels(n),
                         !.background_color = bg] :
        major \in 0..MaxMajor, minor \in 0..MaxMinor, n \in 0..MaxLabels,
        bg \in {None, Some(0)}}

Args == DimensionArgs \cup NeedleArgs \cup FaceArgs

\* ----------------------------------------------------------- construction

\* Lines 112-149 of __init__: the attributes stored from the arguments.
StoredConfig(a) ==
    [x |-> a.x, y |-> a.y,
     _min_value |-> a.min_value,
     _max_value |-> a.max_value,
     _dial_half |-> IF a.needle_full THEN 1 ELSE 0,
     _needle_width_requested |-> a.needle_width,
     _needle_color |-> a.needle_color,
     _needle_pad |-> a.needle_pad,
     _limit_rotation |-> a.limit_rotation,
     _background_color |-> a.background_color,
     _major_tick_labels |-> a.major_tick_labels,
     _tick_color |-> a.tick_color,
     _tick_label_color |-> a.tick_label_color,
     _tick_label_font |-> IF a.tick_label_font = None
                             THEN terminalio_FONT
                             ELSE Get(a.tick_label_font),
     _tick_label_scale |-> a.tick_label_scale,
     _rotate_tick_labels |-> a.rotate_tick_labels,
     _major_ticks |-> a.major_ticks,
     _major_tick_stroke |-> a.major_tick_stroke,
     _major_tick_length |-> a.major_tick_length,
     _minor_ticks |-> a.minor_ticks,
     _minor_tick_stroke |-> a.minor_tick_stroke,
     _minor_tick_length |-> a.minor_tick_length,
     _padding |-> a.padding]

\* The dial palette: 4 entries, entry 0 the background (transparent and black
\* when there is none), entry 1 the label colour, entry 2 the tick colour.
DialPalette(cfg) ==
    [colors |-> <<IF cfg._background_color = None
                     THEN 0 ELSE Get(cfg._background_color),
                  cfg._tick_label_color, cfg._tick_color, 0>>,
     transparent |-> IF cfg._background_color = None THEN {0} ELSE {}]

\* The value __init__ stores: min_value when no value is given.
InitialValue(a) == IF a.value = None THEN a.min_value ELSE Get(a.value)

\* The exception the constructor ends with, or None: the first of the three
\* places that raise, in the order the constructor reaches them.
Raises(a) ==
    IF InvalidDimensions(a.width, a.height, a.padding)
        THEN Some("ValueError")
    ELSE IF draw_labels_raises(a.major_tick_labels)
        THEN Some("ZeroDivisionError")
    ELSE IF _update_needle_raises(a.min_value, a.max_value)
        THEN Some("ZeroDivisionError")
    ELSE None

\* The object as the constructor leaves it: the statements of __init__ and
\* _initialize_dial in order, each step extending the one before, an
\* exception ending the construction where it is raised.
__init__(a) ==
    LET cfg == StoredConfig(a)
        \* lines 110-156
        stored ==
            [Unset EXCEPT !.config = Some(cfg), !._value = Some(InitialValue(a))]
        \* lines 163-165
        font_height == _get_font_height(cfg._tick_label_font, cfg._tick_label_scale)
        measured == [stored EXCEPT !._font_height = Some(font_height)]
        \* lines 168-184
        dim == _adjust_dimensions(a.width, a.height, cfg._padding)
        ticks ==
            draw_ticks(dim._dial_center, dim._dial_radius, cfg._major_ticks,
                       cfg._major_tick_stroke, cfg._major_tick_length)
            \o draw_ticks(dim._dial_center, dim._dial_radius,
                          cfg._minor_ticks * (cfg._major_ticks - 1) + 1,
                          cfg._minor_tick_stroke, cfg._minor_tick_length)
        ticked ==
            [measured EXCEPT
                !._width = Some(dim._width),
                !._height = Some(dim._height),
                !._dial_center = Some(dim._dial_center),
                !._dial_radius = Some(dim._dial_radius),
                !._bounding_box = Some(<<0, 0, dim._width, dim._height>>),
                !.dial_bitmap = Some([width |-> dim._width,
                                      height |-> dim._height,
                                      value_count |-> 3,
                                      commands |-> ticks])]
        \* lines 186-227
        assembled ==
            [ticked EXCEPT
                !.dial_bitmap = Some([Get(@) EXCEPT !.commands =
                    @ \o draw_labels(dim._dial_center, dim._dial_radius,
                                     font_height, cfg._tick_label_scale,
                                     cfg._major_tick_labels)
                      \o draw_outline(dim._dial_center, dim._dial_radius)]),
                !.dial_palette = Some(DialPalette(cfg)),
                !.dial_tilegrid = Some([bitmap |-> "dial_bitmap",
                                        pixel_shader |-> "dial_palette"]),
                !._needle_palette = Some([colors |-> <<cfg._needle_color>>,
                                          transparent |-> {}]),
                !._needle = Some(PlaceholderPoints),
                !._needle_width = Some(cfg._needle_width_requested),
                !.layers = <<"dial_tilegrid", "_needle">>]
    IN  IF InvalidDimensions(a.width, a.height, cfg._padding)
            THEN measured
        ELSE IF draw_labels_raises(cfg._major_tick_labels)
            THEN ticked
        ELSE [assembled EXCEPT
                \* line 228
                !._needle =
                    IF _update_needle_raises(cfg._min_value, cfg._max_value)
                        THEN @
                        ELSE Some(_update_needle(
                                InitialValue(a), InitialValue(a), cfg,
                                dim._dial_center, dim._dial_radius,
                                cfg._needle_width_requested))]

\* ---------------------------------------------------------------- actions

\* Dial(**a): the constructor runs to its end or to the exception it raises.
Dial(a) ==
    /\ pc = "new"
    /\ self' = __init__(a)
    /\ raised' = Raises(a)
    /\ pc' = IF Raises(a) = None THEN "constructed" ELSE "raised"
    /\ last_call' =
        [op |-> "__init__", args |-> Some(a), new_value |-> a.value,
         draw |-> IF \/ InvalidDimensions(a.width, a.height, a.padding)
                     \/ draw_labels_raises(a.major_tick_labels)
                     \/ _update_needle_raises(a.min_value, a.max_value)
                    THEN None
                    ELSE Some(DrawCall(InitialValue(a), InitialValue(a),
                                       StoredConfig(a)))]

value_setter_always(new_value) ==
    /\ pc = "constructed"
    /\ self' =
        [self EXCEPT
            !._value = Some(new_value),
            !._needle = Some(_update_needle(
                new_value, new_value, Get(self.config),
                Get(self._dial_center), Get(self._dial_radius),
                Get(self._needle_width)))]
    /\ last_call' =
        [op |-> "value", args |-> None, new_value |-> Some(new_value),
         draw |-> Some(DrawCall(new_value, new_value, Get(self.config)))]
    /\ UNCHANGED <<pc, raised>>

value_setter_stale(new_value) ==
    /\ pc = "constructed"
    /\ self' = [self EXCEPT !._value = Some(new_value)]
    /\ last_call' = [op |-> "value", args |-> None,
                     new_value |-> Some(new_value), draw |-> None]
    /\ UNCHANGED <<pc, raised>>

value_setter_redraw(new_value) ==
    /\ pc = "constructed"
    /\ self' =
        [self EXCEPT
            !._value = Some(new_value),
            !._needle = Some(_update_needle(
                new_value, new_value, Get(self.config),
                Get(self._dial_center), Get(self._dial_radius),
                Get(self._needle_width))),
            !.layers = IF new_value # Get(self._value)
                          THEN Append(@, "_needle") ELSE @]
    /\ last_call' =
        [op |-> "value", args |-> None, new_value |-> Some(new_value),
         draw |-> IF new_value # Get(self._value)
                     THEN Some(DrawCall(new_value, new_value, Get(self.config)))
                     ELSE None]
    /\ UNCHANGED <<pc, raised>>

\* dial.value = new_value: the setter of the value property.
value_setter(new_value) ==
    /\ pc = "constructed"
    /\ IF new_value # Get(self._value)
          THEN /\ self' =
                    [self EXCEPT
                        !._value = Some(new_value),
                        !._needle = Some(_update_needle(
                            new_value, new_value, Get(self.config),
                            Get(self._dial_center), Get(self._dial_radius),
                            Get(self._needle_width)))]
               /\ last_call' =
                    [op |-> "value", args |-> None,
                     new_value |-> Some(new_value),
                     draw |-> Some(DrawCall(new_value, new_value,
                                            Get(self.config)))]
          ELSE /\ UNCHANGED self
               /\ last_call' = [op |-> "value", args |-> None,
                                new_value |-> Some(new_value), draw |-> None]
    /\ UNCHANGED <<pc, raised>>

Init ==
    /\ pc = "new"
    /\ raised = None
    /\ self = Unset
    /\ last_call = [op |-> "none", args |-> None, new_value |-> None,
                    draw |-> None]

Next ==
    \/ \E a \in Args : Dial(a)
    \/ \E new_value \in Values : value_setter(new_value)

Spec == Init /\ [][Next]_vars

\* ---------------------------------------------------------------- claims

Constructed == pc = "constructed"

\* The constructor has just run (to its end or to an exception): last_call
\* holds its arguments.
JustBuilt == last_call.op = "__init__"

CallArgs == Get(last_call.args)

UsableWidth == CallArgs.width - 2 * CallArgs.padding

UsableHeight == CallArgs.height - 2 * CallArgs.padding

\* The other arguments are such that neither label drawing nor the first
\* needle update raises (as with the defaults).
OtherArgsFine ==
    /\ Len(CallArgs.major_tick_labels) # 1
    /\ CallArgs.max_value # CallArgs.min_value

Cfg == Get(self.config)

\* C1: a constructor call with width - 2*padding < 0 or height - 2*padding < 0
\* ends with ValueError, and at that point no face bitmap, palette, tile
\* grid, needle palette, needle or layer exists.
C1_InvalidDimensionRaises ==
    (JustBuilt /\ (UsableWidth < 0 \/ UsableHeight < 0)) =>
        /\ pc = "raised"
        /\ raised = Some("ValueError")
        /\ self.dial_bitmap = None
        /\ self.dial_palette = None
        /\ self.dial_tilegrid = None
        /\ self._needle_palette = None
        /\ self._needle = None
        /\ self.layers = << >>

\* C1 witness: the width alone fits, the height is too small, ValueError.
C1_Witness ==
    /\ JustBuilt
    /\ UsableWidth >= 0
    /\ UsableHeight < 0
    /\ raised = Some("ValueError")
    /\ self.layers = << >>

\* C2 as stated: for valid dimensions the construction succeeds, and the
\* radius is > 0 whenever width > 2 * padding.
C2_RadiusPositiveAsStated ==
    (JustBuilt /\ UsableWidth >= 0 /\ UsableHeight >= 0 /\ OtherArgsFine) =>
        /\ Constructed
        /\ (CallArgs.width > 2 * CallArgs.padding => Get(self._dial_radius) > 0)

\* C2 amended: for valid dimensions no ValueError is raised and (the other
\* arguments fine) the construction succeeds; the radius is >= 0, and > 0
\* exactly when width - 2 * padding >= 2: for width - 2 * padding = 1 it is
\* round(0.5) = 0.
C2_RadiusPositiveFromTwo ==
    (JustBuilt /\ UsableWidth >= 0 /\ UsableHeight >= 0) =>
        /\ raised # Some("ValueError")
        /\ OtherArgsFine => Constructed
        /\ Constructed =>
            /\ Get(self._dial_radius) >= 0
            /\ Get(self._dial_radius) > 0 <=> UsableWidth >= 2
            /\ UsableWidth = 1 => Get(self._dial_radius) = 0

\* C2 witness: a dial built with width - 2 * padding = 1 has radius 0.
C2_Witness ==
    /\ JustBuilt
    /\ Constructed
    /\ UsableWidth = 1
    /\ Get(self._dial_radius) = 0

C4_SameValueIsNoOp ==
    [][(Constructed /\ last_call'.op = "value"
            /\ last_call'.new_value = self._value)
        => (self' = self /\ last_call'.draw = None)]_vars

\* C4 witness: a same-value assignment has run (it made no draw call).
C4_Witness ==
    /\ Constructed
    /\ last_call.op = "value"
    /\ last_call.new_value = self._value
    /\ last_call.draw = None

\* C5: every needle update computes the position from the stored value
\* clamped to [min_value, max_value] when limit_rotation is set, and from the
\* value itself otherwise; the position is exactly input / (max - min), and
\* the needle is the polygon of that position.  With the range [0, 100] and
\* limit_rotation, 150 is taken as 100 and -10 as 0.
C5_ClampWhenLimited ==
    (Constructed /\ last_call.draw # None) =>
        LET v == Get(self._value)
            lo == Cfg._min_value
            hi == Cfg._max_value
            call == Get(last_call.draw)
        IN  /\ Cfg._limit_rotation =>
                /\ v > hi => call.input = hi
                /\ v < lo => call.input = lo
                /\ (lo <= v /\ v <= hi) => call.input = v
            /\ ~Cfg._limit_rotation => call.input = v
            /\ call.position[2] > 0
            /\ call.position[1] * (hi - lo) = call.input * call.position[2]
            /\ self._needle =
                Some(_draw_position(call.position, Get(self._dial_center),
                                    Get(self._dial_radius), Get(self._needle_width),
                                    Cfg._needle_pad, Cfg._dial_half))
            /\ (Cfg._limit_rotation /\ lo = 0 /\ hi = 100) =>
                /\ v = 150 => call.input = 100
                /\ v = -10 => call.input = 0

\* C5 witness: 150 assigned to a limited dial of range [0, 100] was taken as
\* 100.
C5_Witness ==
    /\ Constructed
    /\ last_call.op = "value"
    /\ last_call.new_value = Some(150)
    /\ Cfg._limit_rotation
    /\ Cfg._min_value = 0
    /\ Cfg._max_value = 100
    /\ last_call.draw # None
    /\ Get(last_call.draw).input = 100

\* The polygon the needle formula yields for the value v on this dial.
NeedleFor(v) ==
    _draw_position(
        Position(IF Cfg._limit_rotation
                    THEN Max(Min(v, Cfg._max_value), Cfg._min_value)
                    ELSE v,
                 Cfg._min_value, Cfg._max_value),
        Get(self._dial_center), Get(self._dial_radius), Get(self._needle_width),
        Cfg._needle_pad, Cfg._dial_half)

\* C6: on a constructed dial the needle has 4 points and is the polygon of
\* the stored value, which is the starting value (min_value when none was
\* given) right after construction and the last assigned value afterwards;
\* it is never the placeholder of _create_needle.
C6_NeedleMatchesValue ==
    Constructed =>
        /\ Len(Get(self._needle)) = 4
        /\ self._needle = Some(NeedleFor(Get(self._value)))
        /\ self._needle # Some(PlaceholderPoints)
        /\ JustBuilt =>
            self._value = IF CallArgs.value = None
                             THEN Some(CallArgs.min_value)
                             ELSE CallArgs.value
        /\ last_call.op = "value" => self._value = last_call.new_value

\* C6 witness: an assignment has changed the value and redrawn the needle.
C6_Witness ==
    /\ Constructed
    /\ last_call.op = "value"
    /\ last_call.draw # None
    /\ self._needle = Some(NeedleFor(Get(last_call.new_value)))

\* Everything of the object but the stored value and the needle's points.
Frame(obj) == [obj EXCEPT !._value = None, !._needle = None]

\* C7: a constructed dial has exactly two layers, the face tile grid below
\* the needle, and a step from a constructed dial (a value assignment)
\* changes nothing but the stored value and the needle's points.
C7_AssignmentFrame ==
    /\ [](Constructed => self.layers = <<"dial_tilegrid", "_needle">>)
    /\ [][Constructed => (Frame(self') = Frame(self) /\ pc' = pc /\ raised' = raised)]_vars

\* C7 witness: an assignment has moved the needle of a dial whose face holds
\* ticks, labels and the outline.
C7_Witness ==
    /\ Constructed
    /\ last_call.op = "value"
    /\ last_call.draw # None
    /\ Len(Get(self.dial_bitmap).commands) > 360
    /\ self.layers = <<"dial_tilegrid", "_needle">>

\* The commands on the face bitmap, and the sizes of the three runs at its
\* head: major ticks, minor ticks, labels.
FaceCommands == Get(self.dial_bitmap).commands

RunLength(count) == IF count > 1 THEN count ELSE 0

MajorRun == RunLength(Cfg._major_ticks)

MinorCount == Cfg._minor_ticks * (Cfg._major_ticks - 1) + 1

MinorRun == RunLength(MinorCount)

LabelCount == Len(Cfg._major_tick_labels)

\* The command is a blit at -180 + i * 360 / (count - 1) degrees: its angle
\* is that angle in radians to the nearest 1/Scale.
AtRunAngle(command, i, count) ==
    /\ command.op = "rotozoom"
    /\ 2 * Abs(command.angle * 180 * (count - 1)
               - (-180 * (count - 1) + i * 360) * HalfTurn)
        <= 180 * (count - 1)

\* C8: on a constructed dial item i of a run of N > 1 is at -180 + i*360/(N-1)
\* degrees, N = major_ticks for the major run, minor_ticks*(major_ticks-1)+1
\* for the minor run and the number of labels for the label run; 5 labels sit
\* at -180, -90, 0, 90, 180 degrees, 5 major with 5 minor ticks make 21 minor
\* ticks, and minor tick i * minor_ticks is where major tick i is.
C8_RunAngles ==
    Constructed =>
        /\ Len(FaceCommands) = MajorRun + MinorRun + LabelCount + 360
        /\ \A i \in 0..(MajorRun - 1) :
                /\ AtRunAngle(FaceCommands[i + 1], i, Cfg._major_ticks)
                /\ FaceCommands[i + 1].source[1] = "tick"
        /\ \A i \in 0..(MinorRun - 1) :
                /\ AtRunAngle(FaceCommands[MajorRun + i + 1], i, MinorCount)
                /\ FaceCommands[MajorRun + i + 1].source[1] = "tick"
        /\ \A i \in 0..(LabelCount - 1) :
                /\ AtRunAngle(FaceCommands[MajorRun + MinorRun + i + 1], i, LabelCount)
                /\ FaceCommands[MajorRun + MinorRun + i + 1].source
                    = <<"label", Cfg._major_tick_labels[i + 1]>>
        /\ (MajorRun > 0 /\ MinorRun > 0) =>
                \A i \in 0..(MajorRun - 1) :
                    LET major == FaceCommands[i + 1]
                        minor == FaceCommands[MajorRun + i * Cfg._minor_ticks + 1]
                    IN  /\ minor.angle = major.angle
                        /\ minor.ox = major.ox
                        /\ minor.oy = major.oy
        /\ (Cfg._major_ticks = 5 /\ Cfg._minor_ticks = 5) => MinorRun = 21
        /\ LabelCount = 5 =>
                [i \in 1..5 |-> FaceCommands[MajorRun + MinorRun + i].angle]
                    = <<-HalfTurn, -(HalfTurn \div 2), 0, HalfTurn \div 2, HalfTurn>>

\* C8 witness: a dial with 5 major ticks, 5 minor ticks per major and 5
\* labels: 5 + 21 + 5 blits.
C8_Witness ==
    /\ Constructed
    /\ Cfg._major_ticks = 5
    /\ Cfg._minor_ticks = 5
    /\ LabelCount = 5
    /\ MinorRun = 21

\* C9 as stated: a run of at most one tick or label draws nothing and raises
\* nothing.  (The constructor is past the dimension check and the range is
\* not empty.)
C9_DegenerateRunsAreSilent ==
    (JustBuilt /\ UsableWidth >= 0 /\ UsableHeight >= 0
        /\ CallArgs.max_value # CallArgs.min_value) =>
        /\ Cardinality({k \in 1..Len(FaceCommands) :
                            /\ FaceCommands[k].op = "rotozoom"
                            /\ FaceCommands[k].source[1] = "tick"})
            = MajorRun + MinorRun
        /\ LabelCount <= 1 =>
            /\ raised = None
            /\ \A k \in 1..Len(FaceCommands) :
                    FaceCommands[k].op = "rotozoom"
                        => FaceCommands[k].source[1] # "label"

\* The tick half of C9, which the code keeps: degenerate tick runs draw
\* nothing whatever the constructor's end.
C9_TickRunsOnly ==
    (JustBuilt /\ UsableWidth >= 0 /\ UsableHeight >= 0) =>
        Cardinality({k \in 1..Len(FaceCommands) :
                        /\ FaceCommands[k].op = "rotozoom"
                        /\ FaceCommands[k].source[1] = "tick"})
            = MajorRun + MinorRun

\* C10 as stated: with limit_rotation and min_value < max_value the position
\* handed to _draw_position is within [0, 1].
C10_PositionInUnitInterval ==
    (Constructed /\ last_call.draw # None /\ Cfg._limit_rotation
        /\ Cfg._min_value < Cfg._max_value) =>
        LET position == Get(last_call.draw).position
        IN  0 <= position[1] /\ position[1] <= position[2]

====
